---- MODULE Spec2Model ----
(***************************************************************************)
(* Chirpy (BabichevDima/goServer): the authentication and session core.    *)
(*                                                                         *)
(*  - the refresh_tokens / users tables and the three sqlc queries         *)
(*    CreateRefreshToken, RevokeRefreshToken, GetUserFromRefreshToken;     *)
(*  - the same queries run by concurrent callers (READ COMMITTED);         *)
(*  - MakeJWT / ValidateJWT of internal/auth on top of golang-jwt v5.      *)
(*                                                                         *)
(* Time is counted in ticks; TicksPerSecond ticks make one second.         *)
(***************************************************************************)
EXTENDS Integers, Sequences, FiniteSets, TLC

VARIABLES
    now,             \* the wall clock, in ticks (NOW() / time.Now())
    users,           \* table users: a set of rows
    refresh_tokens,  \* table refresh_tokens: a set of rows
    resp,            \* the call made by the latest step and what it returned
    issuedTo,        \* history: <<token, user, expires_at>> of every successful CreateRefreshToken
    revokeCalled,    \* history: tokens on which RevokeRefreshToken ran while persisted
    pc,              \* concurrent callers: where each one is in its call
    txn,             \* concurrent callers: the local state of the running statement
    jwt,             \* the access token under consideration (NULL: none yet)
    made,            \* history: how MakeJWT produced jwt (NULL: jwt was not made by MakeJWT)
    heap,            \* the number of error values allocated so far (errors.New)
    secret,          \* the password last given to HashPassword (NULL: none yet)
    hashes,          \* the hashes HashPassword has returned for secret
    chirps,          \* table chirps: a set of rows
    fileserverHits,  \* apiConfig.fileserverHits (atomic.Int32)
    sinceReset       \* history: the increments made since the last handlerReset

vars == <<now, users, refresh_tokens, resp, issuedTo, revokeCalled, pc, txn, jwt, made,
          heap, secret, hashes, chirps, fileserverHits, sinceReset>>

storeVars == <<users, refresh_tokens, issuedTo, revokeCalled>>
concVars  == <<pc, txn>>
jwtVars   == <<jwt, made>>
authVars  == <<heap, secret, hashes>>
httpVars  == <<chirps, fileserverHits, sinceReset>>

\* ------------------------------------------------------------------ bounds

MaxTime == 2

Times == 0..MaxTime

\* Identifiers are opaque: two user ids (uuid), two e-mail addresses and two
\* refresh-token values are enough for "this one" and "another one".
UserIDs == {1, 2}
Emails  == {1, 2}
Tokens  == {1, 2}

\* expires_at is chosen by the caller: past, present and future values
Expiries == 0..(MaxTime + 1)

\* A nullable column / an optional value: NULL, or a one-element sequence.
NULL    == <<>>
Some(x) == <<x>>
Val(o)  == o[1]

\* ------------------------------------------------------------------ responses

NoCall == [op |-> "none", token |-> 0, key |-> 0, err |-> "nil", id |-> NULL, email |-> NULL]

Response(op, t, err, id, email) ==
    [op |-> op, token |-> t, key |-> 0, err |-> err, id |-> id, email |-> email]

ErrNil         == "nil"
ErrNoRows      == "sql: no rows in result set"
ErrDuplicate   == "pq: duplicate key value violates unique constraint"
ErrForeignKey  == "pq: violates foreign key constraint fk_user"

\* ------------------------------------------------------------------ tables

\* CREATE TABLE users: id is the primary key, email is UNIQUE.
UserRow(id, email) == [id |-> id, email |-> email]

\* CREATE TABLE refresh_tokens
\* created_at and updated_at DEFAULT NOW(); revoked_at is nullable, no default.
RefreshTokenRow(t, u, e, at) ==
    [token |-> t, created_at |-> at, updated_at |-> at,
     expires_at |-> e, revoked_at |-> NULL, user_id |-> u]

\* token TEXT PRIMARY KEY: an insert of an existing key is refused
PrimaryKeyIgnored(rows, t) == TRUE

PrimaryKeyFree(rows, t) == \A r \in rows : r.token # t

\* FOREIGN KEY(user_id) REFERENCES users(id)
fk_user(urows, u) == \E x \in urows : x.id = u

\* ------------------------------------------------------------------ queries

\* -- name: CreateUser :one   (id DEFAULT gen_random_uuid(), email UNIQUE)
CreateUser(id, email) ==
    /\ \A x \in users : x.id # id
    /\ IF \E x \in users : x.email = email
         THEN /\ users' = users
              /\ resp' = Response("CreateUser", 0, ErrDuplicate, NULL, NULL)
         ELSE /\ users' = users \cup {UserRow(id, email)}
              /\ resp' = Response("CreateUser", 0, ErrNil, NULL, NULL)
    /\ UNCHANGED <<now, refresh_tokens, issuedTo, revokeCalled, concVars, jwtVars, authVars, httpVars>>

\* -- name: CreateRefreshToken :one
\* INSERT INTO refresh_tokens (token, user_id, expires_at) VALUES ($1, $2, $3)
InsertRefreshToken(urows, rows, t, u, e, at) ==
    IF ~PrimaryKeyFree(rows, t)
      THEN [rows |-> rows, err |-> ErrDuplicate]
    ELSE IF ~fk_user(urows, u)
      THEN [rows |-> rows, err |-> ErrForeignKey]
    ELSE [rows |-> rows \cup {RefreshTokenRow(t, u, e, at)}, err |-> ErrNil]

CreateRefreshToken(t, u, e) ==
    LET r == InsertRefreshToken(users, refresh_tokens, t, u, e, now) IN
    /\ refresh_tokens' = r.rows
    /\ resp' = Response("CreateRefreshToken", t, r.err, NULL, NULL)
    /\ issuedTo' = IF r.err = ErrNil THEN issuedTo \cup {<<t, u, e>>} ELSE issuedTo
    /\ UNCHANGED <<now, users, revokeCalled, concVars, jwtVars, authVars, httpVars>>

\* -- name: RevokeRefreshToken :exec
\* UPDATE refresh_tokens SET revoked_at = NOW(), updated_at = NOW()
\* WHERE token = $1 AND revoked_at IS NULL;
RevokeWhereNoGuard(r, t) == r.token = t

RevokeWhere(r, t) == r.token = t /\ r.revoked_at = NULL

RevokeSet(r, at) == [r EXCEPT !.revoked_at = Some(at), !.updated_at = at]

UpdateRevoke(rows, t, at) ==
    {IF RevokeWhere(r, t) THEN RevokeSet(r, at) ELSE r : r \in rows}

\* :exec returns only the driver's error; the number of rows affected is dropped
RevokeRefreshToken(t) ==
    /\ refresh_tokens' = UpdateRevoke(refresh_tokens, t, now)
    /\ resp' = Response("RevokeRefreshToken", t, ErrNil, NULL, NULL)
    /\ revokeCalled' = IF \E r \in refresh_tokens : r.token = t
                         THEN revokeCalled \cup {t} ELSE revokeCalled
    /\ UNCHANGED <<now, users, issuedTo, concVars, jwtVars, authVars, httpVars>>

\* -- name: GetUserFromRefreshToken :one
\* SELECT users.id, users.email FROM users
\* JOIN refresh_tokens ON users.id = refresh_tokens.user_id
\* WHERE refresh_tokens.token = $1 AND refresh_tokens.revoked_at IS NULL
\* AND refresh_tokens.expires_at > NOW();
JoinOnAnyUser(x, r) == TRUE

JoinOn(x, r) == x.id = r.user_id

GetUserWhereInclusive(r, t, at) ==
    r.token = t /\ r.revoked_at = NULL /\ r.expires_at >= at

GetUserWhereNoRevoked(r, t, at) == r.token = t /\ r.expires_at > at

GetUserWhere(r, t, at) ==
    r.token = t /\ r.revoked_at = NULL /\ r.expires_at > at

SelectUserFromRefreshToken(urows, rows, t, at) ==
    {<<x, r>> \in urows \X rows : JoinOn(x, r) /\ GetUserWhere(r, t, at)}

\* (a lookup by token alone that then tells the caller why it refuses)
GetUserFromRefreshTokenResultsTelling(urows, rows, t, at) ==
    LET sel == {<<x, r>> \in urows \X rows : x.id = r.user_id /\ r.token = t} IN
    IF sel = {}
      THEN {Response("GetUserFromRefreshToken", t, ErrNoRows, NULL, NULL)}
      ELSE {IF p[2].revoked_at # NULL
              THEN Response("GetUserFromRefreshToken", t, "token revoked", NULL, NULL)
            ELSE IF p[2].expires_at <= at
              THEN Response("GetUserFromRefreshToken", t, "token expired", NULL, NULL)
            ELSE Response("GetUserFromRefreshToken", t, ErrNil,
                          Some(p[1].id), Some(p[1].email)) : p \in sel}

\* :one scans the first row of the result, or returns sql.ErrNoRows; the
\* query has no ORDER BY, so any row of the result may be the first.
GetUserFromRefreshTokenResults(urows, rows, t, at) ==
    LET sel == SelectUserFromRefreshToken(urows, rows, t, at) IN
    IF sel = {}
      THEN {Response("GetUserFromRefreshToken", t, ErrNoRows, NULL, NULL)}
      ELSE {Response("GetUserFromRefreshToken", t, ErrNil,
                     Some(p[1].id), Some(p[1].email)) : p \in sel}

GetUserFromRefreshToken(t) ==
    /\ resp' \in GetUserFromRefreshTokenResults(users, refresh_tokens, t, now)
    /\ UNCHANGED <<now, storeVars, concVars, jwtVars, authVars, httpVars>>

\* Time passes.
Tick ==
    /\ now < MaxTime
    /\ now' = now + 1
    /\ resp' = NoCall
    /\ UNCHANGED <<storeVars, concVars, jwtVars, authVars, httpVars>>

\* ------------------------------------------------------------------ Spec: the store

Init ==
    /\ now = 0
    /\ users = {}
    /\ refresh_tokens = {}
    /\ resp = NoCall
    /\ issuedTo = {}
    /\ revokeCalled = {}
    /\ pc = <<>>
    /\ txn = <<>>
    /\ jwt = NULL
    /\ made = NULL
    /\ heap = {}
    /\ secret = NULL
    /\ hashes = {}
    /\ chirps = {}
    /\ fileserverHits = 0
    /\ sinceReset = 0

Next ==
    \/ \E id \in UserIDs, email \in Emails : CreateUser(id, email)
    \/ \E t \in Tokens, u \in UserIDs, e \in Expiries : CreateRefreshToken(t, u, e)
    \/ \E t \in Tokens : RevokeRefreshToken(t)
    \/ \E t \in Tokens : GetUserFromRefreshToken(t)
    \/ Tick

Spec == Init /\ [][Next]_vars

\* ------------------------------------------------------------------ claims on the store

\* What every call of GetUserFromRefreshToken(t) can return in the current state.
Resolve(t) == GetUserFromRefreshTokenResults(users, refresh_tokens, t, now)

RowsOf(t) == {r \in refresh_tokens : r.token = t}

\* C1: resolveRefreshToken(t) succeeds if and only if a record with token = t
\* exists whose revoked_at is NULL and whose expires_at is strictly greater
\* than now; in every reachable store, for every t, and for the call just made.
C1_ResolveIffActive ==
    /\ \A t \in Tokens : \A o \in Resolve(t) :
          (o.err = ErrNil) <=>
             (\E r \in refresh_tokens :
                 r.token = t /\ r.revoked_at = NULL /\ now < r.expires_at)
    /\ resp.op = "GetUserFromRefreshToken" =>
          ((resp.err = ErrNil) <=>
             (\E r \in refresh_tokens :
                 r.token = resp.token /\ r.revoked_at = NULL /\ now < r.expires_at))

\* A resolve has just succeeded on one token while the other one is revoked.
C1_Witness ==
    /\ resp.op = "GetUserFromRefreshToken"
    /\ resp.err = ErrNil
    /\ \E r \in refresh_tokens : r.token # resp.token /\ r.revoked_at # NULL

\* C2: once a record has revoked_at set, every later step (persist, resolve,
\* revoke on any token, time passing) leaves that revoked_at as it is, and a
\* record that is revoked or expired is not resolvable after the step.
C2_RevocationTerminal ==
    [][\A r \in refresh_tokens :
          /\ r.revoked_at # NULL =>
                /\ RowsOf(r.token)' # {}
                /\ \A r2 \in RowsOf(r.token)' : r2.revoked_at = r.revoked_at
          /\ (r.revoked_at # NULL \/ r.expires_at <= now) =>
                \A o \in Resolve(r.token)' : o.err # ErrNil]_vars

\* A token revoked at an earlier time has since been the target of a persist.
C2_Witness ==
    /\ resp.op = "CreateRefreshToken"
    /\ \E r \in refresh_tokens :
          r.token = resp.token /\ r.revoked_at # NULL /\ Val(r.revoked_at) < now

\* C3: a token persisted for user u resolves to exactly u while it is neither
\* revoked nor expired, whatever happened to other tokens; once revoke has been
\* called on it every resolve fails; and revoke never returns an error.
C3_Lifecycle ==
    /\ \A i \in issuedTo : \A o \in Resolve(i[1]) :
          /\ o.err = ErrNil => o.id = Some(i[2])
          /\ (i[1] \notin revokeCalled /\ now < i[3]) => o.err = ErrNil
          /\ i[1] \in revokeCalled => o.err # ErrNil
    /\ (resp.op = "GetUserFromRefreshToken" /\ resp.err = ErrNil) =>
          \E i \in issuedTo : i[1] = resp.token /\ resp.id = Some(i[2])
    /\ resp.op = "RevokeRefreshToken" => resp.err = ErrNil

\* A token that would still be unexpired fails to resolve after its revocation,
\* while the other token belongs to another user.
C3_Witness ==
    /\ resp.op = "GetUserFromRefreshToken"
    /\ resp.err = ErrNoRows
    /\ resp.token \in revokeCalled
    /\ \E i \in issuedTo, j \in issuedTo :
          i[1] = resp.token /\ now < i[3] /\ j[1] # i[1] /\ j[2] # i[2]

\* C4: revoke of a token that is already revoked, or that has no record,
\* reports no failure and leaves the whole store as it was (revoked_at and
\* updated_at of a revoked record included).
C4_RevokeNoOp ==
    [][(/\ resp'.op = "RevokeRefreshToken"
        /\ ~ \E r \in refresh_tokens : r.token = resp'.token /\ r.revoked_at = NULL)
       => (/\ resp'.err = ErrNil
           /\ refresh_tokens' = refresh_tokens
           /\ users' = users)]_vars

\* A second revoke, at a later time than the first, has just returned.
C4_Witness ==
    /\ resp.op = "RevokeRefreshToken"
    /\ \E r \in refresh_tokens :
          /\ r.token = resp.token
          /\ r.revoked_at # NULL
          /\ Val(r.revoked_at) < now
          /\ r.updated_at = Val(r.revoked_at)

\* C5: a record keeps the expires_at it was persisted with, and from
\* now = expires_at on it does not resolve, revoked or not.
C5_ExpiryTerminal ==
    \A i \in issuedTo :
        /\ \E r \in refresh_tokens : r.token = i[1]
        /\ \A r \in RowsOf(i[1]) : r.expires_at = i[3]
        /\ now >= i[3] => \A o \in Resolve(i[1]) : o.err # ErrNil

\* A never-revoked token fails to resolve exactly at now = expires_at, having
\* been persisted earlier with expires_at in the future.
C5_Witness ==
    /\ resp.op = "GetUserFromRefreshToken"
    /\ resp.err = ErrNoRows
    /\ \E r \in refresh_tokens :
          /\ r.token = resp.token
          /\ r.revoked_at = NULL
          /\ r.expires_at = now
          /\ r.created_at < r.expires_at

\* C6: every failed resolve, in every reachable store and whatever makes the
\* token invalid, is the same outcome: sql.ErrNoRows and no user.  Two stores
\* that differ in why t is invalid therefore answer identically.
Outcome(o) == <<o.err, o.id, o.email>>

C6_UniformFailure ==
    /\ \A t \in Tokens : \A o \in Resolve(t) :
          o.err # ErrNil => Outcome(o) = <<ErrNoRows, NULL, NULL>>
    /\ (resp.op = "GetUserFromRefreshToken" /\ resp.err # ErrNil) =>
          Outcome(resp) = <<ErrNoRows, NULL, NULL>>

\* A resolve of a revoked, unexpired token has failed while the other token is
\* expired and never revoked.
C6_Witness ==
    /\ resp.op = "GetUserFromRefreshToken"
    /\ resp.err # ErrNil
    /\ \E r \in refresh_tokens :
          r.token = resp.token /\ r.revoked_at # NULL /\ now < r.expires_at
    /\ \E r \in refresh_tokens :
          r.token # resp.token /\ r.revoked_at = NULL /\ r.expires_at <= now

\* C7: token values are unique in the store, and a persist of a token value
\* that already has a record fails with a conflict and changes nothing.
C7_UniqueTokens ==
    [][/\ \A r1 \in refresh_tokens', r2 \in refresh_tokens' :
             r1.token = r2.token => r1 = r2
       /\ (/\ resp'.op = "CreateRefreshToken"
           /\ \E r \in refresh_tokens : r.token = resp'.token)
          => (/\ resp'.err = ErrDuplicate
              /\ refresh_tokens' = refresh_tokens
              /\ users' = users)]_vars

\* A persist over a revoked record has just been refused.
C7_Witness ==
    /\ resp.op = "CreateRefreshToken"
    /\ resp.err = ErrDuplicate
    /\ \E r \in refresh_tokens : r.token = resp.token /\ r.revoked_at # NULL

\* ------------------------------------------------------------------ SpecConc: concurrent callers
(***************************************************************************)
(* The same queries issued by concurrent request handlers.  Each query is  *)
(* one autocommit statement under PostgreSQL's READ COMMITTED: NOW() is    *)
(* the start of the statement's transaction; an UPDATE scans its snapshot, *)
(* then locks each row found, re-evaluates its WHERE on the latest         *)
(* committed version of a row that changed meanwhile, writes, commits and  *)
(* only then returns.  A SELECT reads one committed snapshot.              *)
(***************************************************************************)

Revokers  == {"r1", "r2"}
Resolvers == {"q1"}
Procs     == Revokers \cup Resolvers

IdleTxn == [token |-> 0, at |-> 0, cand |-> {}, pending |-> {}, affected |-> 0,
            err |-> ErrNil, id |-> NULL, after |-> {}]

\* tokens whose rows a caller holds locked (from its write to its commit)
LockedBy(p) == IF pc[p] = "locked" THEN txn[p].pending ELSE {}

\* the handler calls cfg.DB.RevokeRefreshToken(ctx, t): the statement starts
RevokeBegin(p, t) ==
    /\ pc[p] = "idle"
    /\ pc' = [pc EXCEPT ![p] = "begun"]
    /\ txn' = [txn EXCEPT ![p] = [IdleTxn EXCEPT !.token = t, !.at = now]]
    /\ UNCHANGED <<now, storeVars, resp, jwtVars, authVars, httpVars>>

\* the UPDATE scans the rows its snapshot shows for WHERE
RevokeScan(p) ==
    /\ pc[p] = "begun"
    /\ pc' = [pc EXCEPT ![p] = "scanned"]
    /\ txn' = [txn EXCEPT ![p].cand =
                  {r.token : r \in {x \in refresh_tokens : RevokeWhere(x, txn[p].token)}}]
    /\ UNCHANGED <<now, storeVars, resp, jwtVars, authVars, httpVars>>

\* it locks the rows found (waiting for a concurrent writer to commit) and
\* re-evaluates WHERE on their latest committed versions
RevokeLock(p) ==
    /\ pc[p] = "scanned"
    /\ \A p2 \in Procs \ {p} : LockedBy(p2) \cap txn[p].cand = {}
    /\ pc' = [pc EXCEPT ![p] = "locked"]
    /\ txn' = [txn EXCEPT ![p].pending =
                  {r.token : r \in {x \in refresh_tokens :
                                      /\ x.token \in txn[p].cand
                                      /\ RevokeWhere(x, txn[p].token)}}]
    /\ UNCHANGED <<now, storeVars, resp, jwtVars, authVars, httpVars>>

\* it writes SET revoked_at = NOW(), updated_at = NOW() and commits
RevokeCommit(p) ==
    /\ pc[p] = "locked"
    /\ refresh_tokens' =
          {IF r.token \in txn[p].pending THEN RevokeSet(r, txn[p].at) ELSE r :
             r \in refresh_tokens}
    /\ revokeCalled' = revokeCalled \cup txn[p].pending
    /\ pc' = [pc EXCEPT ![p] = "committed"]
    /\ txn' = [txn EXCEPT ![p].affected = Cardinality(txn[p].pending)]
    /\ UNCHANGED <<now, users, issuedTo, resp, jwtVars, authVars, httpVars>>

\* :exec returns the error of ExecContext alone
RevokeReturn(p) ==
    /\ pc[p] = "committed"
    /\ pc' = [pc EXCEPT ![p] = "done"]
    /\ txn' = [txn EXCEPT ![p].err = ErrNil]
    /\ UNCHANGED <<now, storeVars, resp, jwtVars, authVars, httpVars>>

\* the handler calls cfg.DB.GetUserFromRefreshToken(ctx, t); `after` records
\* the revoke calls that had returned before this call started
ResolveBegin(p, t) ==
    /\ pc[p] = "idle"
    /\ pc' = [pc EXCEPT ![p] = "begun"]
    /\ txn' = [txn EXCEPT ![p] =
                  [IdleTxn EXCEPT !.token = t,
                                  !.after = {txn[r].token : r \in {x \in Revokers : pc[x] = "done"}}]]
    /\ UNCHANGED <<now, storeVars, resp, jwtVars, authVars, httpVars>>

\* the SELECT runs on the committed rows, with NOW() the time it starts
ResolveSelect(p) ==
    /\ pc[p] = "begun"
    /\ \E o \in GetUserFromRefreshTokenResults(users, refresh_tokens, txn[p].token, now) :
          txn' = [txn EXCEPT ![p].err = o.err, ![p].id = o.id, ![p].at = now]
    /\ pc' = [pc EXCEPT ![p] = "done"]
    /\ UNCHANGED <<now, storeVars, resp, jwtVars, authVars, httpVars>>

\* the next request of the resolving client
ResolveAgain(p) ==
    /\ pc[p] = "done"
    /\ pc' = [pc EXCEPT ![p] = "idle"]
    /\ txn' = [txn EXCEPT ![p] = IdleTxn]
    /\ UNCHANGED <<now, storeVars, resp, jwtVars, authVars, httpVars>>

\* Two users, each with a refresh token persisted at time 0.
InitConc ==
    /\ now = 0
    /\ users = {UserRow(1, 1), UserRow(2, 2)}
    /\ \E e \in Expiries \ {0} :
          /\ refresh_tokens = {RefreshTokenRow(1, 1, e, 0),
                               RefreshTokenRow(2, 2, MaxTime + 1, 0)}
          /\ issuedTo = {<<1, 1, e>>, <<2, 2, MaxTime + 1>>}
    /\ resp = NoCall
    /\ revokeCalled = {}
    /\ pc = [p \in Procs |-> "idle"]
    /\ txn = [p \in Procs |-> IdleTxn]
    /\ jwt = NULL
    /\ made = NULL
    /\ heap = {}
    /\ secret = NULL
    /\ hashes = {}
    /\ chirps = {}
    /\ fileserverHits = 0
    /\ sinceReset = 0

NextConc ==
    \/ \E p \in Revokers, t \in Tokens : RevokeBegin(p, t)
    \/ \E p \in Revokers : RevokeScan(p)
    \/ \E p \in Revokers : RevokeLock(p)
    \/ \E p \in Revokers : RevokeCommit(p)
    \/ \E p \in Revokers : RevokeReturn(p)
    \/ \E p \in Resolvers, t \in Tokens : ResolveBegin(p, t)
    \/ \E p \in Resolvers : ResolveSelect(p)
    \/ \E p \in Resolvers : ResolveAgain(p)
    \/ Tick

SpecConc == InitConc /\ [][NextConc]_vars

\* C8: two concurrent revokes of one token both return without error; exactly
\* one of them updates the row, and revoked_at is and stays that one's NOW();
\* a resolve that starts after either of them has returned fails.
C8_ConcurrentRevoke ==
    /\ \A p \in Revokers : pc[p] = "done" => txn[p].err = ErrNil
    /\ \A p1 \in Revokers, p2 \in Revokers :
          (/\ p1 # p2
           /\ txn[p1].token = txn[p2].token
           /\ pc[p1] \in {"committed", "done"}
           /\ pc[p2] \in {"committed", "done"})
          => /\ txn[p1].affected + txn[p2].affected = 1
             /\ \A r \in RowsOf(txn[p1].token) :
                   \E w \in {p1, p2} :
                      txn[w].affected = 1 /\ r.revoked_at = Some(txn[w].at)
    /\ \A q \in Resolvers :
          (pc[q] = "done" /\ txn[q].token \in txn[q].after) => txn[q].err = ErrNoRows

\* Both revokes of one unexpired token have returned, started at different
\* times and overlapping, and a resolve begun after them has failed.
C8_Witness ==
    /\ pc["r1"] = "done" /\ pc["r2"] = "done"
    /\ txn["r1"].token = txn["r2"].token
    /\ txn["r1"].at < txn["r2"].at
    /\ txn["r1"].affected = 0
    /\ pc["q1"] = "done"
    /\ txn["q1"].token = txn["r1"].token
    /\ txn["q1"].token \in txn["q1"].after
    /\ \E r \in RowsOf(txn["q1"].token) : txn["q1"].at < r.expires_at

\* ------------------------------------------------------------------ SpecJWT: access tokens
(***************************************************************************)
(* internal/auth: MakeJWT and ValidateJWT over github.com/golang-jwt/jwt   *)
(* v5.  A token string is its three segments header.claims.signature; the  *)
(* registered claims carry their dates as NumericDate, whole seconds.      *)
(* HMAC is taken as ideal: a signature is determined by, and determines,   *)
(* the key, the algorithm and the signed claims.                           *)
(***************************************************************************)

TicksPerSecond == 2
MaxClock       == 4
MaxTTL         == 3

\* uuid.Nil
UUIDNil == 0
UUIDs   == UserIDs \cup {UUIDNil}
Secrets == {1, 2}
\* time.Duration: negative, zero, below one second, above one second
TTLs    == (0 - 1)..MaxTTL
Algs    == {"HS256", "HS512", "none", "RS256"}
HMACAlgs == {"HS256", "HS384", "HS512"}

\* const TokenIssuer
TokenIssuer == "chirpy"
Issuers     == {TokenIssuer, "other"}

\* uuid.UUID.String(): the canonical 36-character form
UUIDString(u) == [form |-> "canonical", uuid |-> u]

\* Subject strings: canonical and "urn:uuid:" forms of a uuid, and a string
\* that is no uuid.
Subjects ==
    {UUIDString(u) : u \in UUIDs} \cup {[form |-> "urn", uuid |-> 1],
                                       [form |-> "text", uuid |-> 0]}

\* uuid.Parse: accepts the canonical form and the urn form, refuses the rest
UUIDParse(s) ==
    IF s.form \in {"canonical", "urn"}
      THEN [ok |-> TRUE, id |-> s.uuid]
      ELSE [ok |-> FALSE, id |-> UUIDNil]

\* jwt.NewNumericDate(t): t.Truncate(TimePrecision), marshalled as seconds
NewNumericDate(t) == t \div TicksPerSecond

\* NumericDate.Time of a parsed claim, in ticks
NumericDateTime(s) == s * TicksPerSecond

\* jwt.RegisteredClaims as MakeJWT fills them in
RegisteredClaims(iss, sub, iat, exp, nbf) ==
    [iss |-> iss, sub |-> sub, iat |-> iat, exp |-> exp, nbf |-> nbf]

\* SigningMethodHMAC.Sign over header.claims with the key
Sign(alg, claims, key) == [alg |-> alg, claims |-> claims, key |-> key]

\* the compact form header.claims.signature
TokenString(alg, claims, sig) == <<alg, claims, sig>>

MakeJWTNoTTL(userID, tokenSecret, expiresIn, at) ==
    LET claims == RegisteredClaims("chirpy", UUIDString(userID),
                                   Some(NewNumericDate(at)),
                                   Some(NewNumericDate(at)), NULL)
    IN TokenString("HS256", claims, Sign("HS256", claims, tokenSecret))

MakeJWT(userID, tokenSecret, expiresIn, at) ==
    LET claims == RegisteredClaims("chirpy", UUIDString(userID),
                                   Some(NewNumericDate(at)),
                                   Some(NewNumericDate(at + expiresIn)), NULL)
    IN TokenString("HS256", claims, Sign("HS256", claims, tokenSecret))

\* the keyfunc of ValidateJWT: token.Method.(*jwt.SigningMethodHMAC)
KeyfuncAcceptsAny(alg) == TRUE

KeyfuncAccepts(alg) == alg \in HMACAlgs

\* SigningMethodHMAC.Verify
VerifySkipped(tok, key) == TRUE

Verify(tok, key) == tok[3] = Sign(tok[1], tok[2], key)

\* jwt.Validator.Validate: exp and nbf are checked when present, iat is not
ExpiredOrRevoked(claims, at) ==
    \/ claims.exp # NULL /\ ~(at < NumericDateTime(Val(claims.exp)))
    \/ \E r \in refresh_tokens : r.revoked_at # NULL

ExpiredInclusive(claims, at) ==
    claims.exp # NULL /\ ~(at <= NumericDateTime(Val(claims.exp)))

Expired(claims, at) ==
    claims.exp # NULL /\ ~(at < NumericDateTime(Val(claims.exp)))

NotValidYet(claims, at) ==
    claims.nbf # NULL /\ at < NumericDateTime(Val(claims.nbf))

IssuerOK(claims) == claims.iss = TokenIssuer

ValidateResult(id, err) == [id |-> id, err |-> err]

ValidateJWTLeaky(tokenString, tokenSecret, at) ==
    IF Len(tokenString) # 3
      THEN ValidateResult(UUIDNil, "invalid token: token is malformed")
    ELSE IF /\ KeyfuncAccepts(tokenString[1])
            /\ Verify(tokenString, tokenSecret)
            /\ ~Expired(tokenString[2], at)
            /\ ~NotValidYet(tokenString[2], at)
            /\ IssuerOK(tokenString[2])
            /\ UUIDParse(tokenString[2].sub).ok
      THEN ValidateResult(UUIDParse(tokenString[2].sub).id, ErrNil)
    ELSE ValidateResult(tokenString[2].sub.uuid, "invalid token")

ValidateJWT(tokenString, tokenSecret, at) ==
    IF Len(tokenString) # 3
      THEN ValidateResult(UUIDNil, "invalid token: token is malformed")
    ELSE IF ~KeyfuncAccepts(tokenString[1])
      THEN ValidateResult(UUIDNil, "invalid token: token is unverifiable: unexpected signing method")
    ELSE IF ~Verify(tokenString, tokenSecret)
      THEN ValidateResult(UUIDNil, "invalid token: token signature is invalid")
    ELSE IF Expired(tokenString[2], at) /\ NotValidYet(tokenString[2], at)
      THEN ValidateResult(UUIDNil, "invalid token: token has invalid claims: token is expired, token is not valid yet")
    ELSE IF Expired(tokenString[2], at)
      THEN ValidateResult(UUIDNil, "invalid token: token has invalid claims: token is expired")
    ELSE IF NotValidYet(tokenString[2], at)
      THEN ValidateResult(UUIDNil, "invalid token: token has invalid claims: token is not valid yet")
    ELSE IF ~IssuerOK(tokenString[2])
      THEN ValidateResult(UUIDNil, "invalid issuer")
    ELSE IF ~UUIDParse(tokenString[2].sub).ok
      THEN ValidateResult(UUIDNil, "invalid user ID in token")
    ELSE ValidateResult(UUIDParse(tokenString[2].sub).id, ErrNil)

\* ---- steps

\* a handler issues a token
IssueJWT(userID, tokenSecret, expiresIn) ==
    /\ jwt' = Some(MakeJWT(userID, tokenSecret, expiresIn, now))
    /\ made' = Some([userID |-> userID, tokenSecret |-> tokenSecret,
                     expiresIn |-> expiresIn, at |-> now])
    /\ resp' = [NoCall EXCEPT !.op = "MakeJWT", !.key = tokenSecret]
    /\ UNCHANGED <<now, storeVars, concVars, authVars, httpVars>>

\* someone holding a key signs claims of their own choosing
ForeignSubjects ==
    {UUIDString(1), [form |-> "urn", uuid |-> 1], [form |-> "text", uuid |-> 0]}

ForeignClaims ==
    {RegisteredClaims(iss, sub, NULL, exp, nbf) :
        iss \in Issuers, sub \in ForeignSubjects,
        exp \in {NULL} \cup {Some(x) : x \in 1..2},
        nbf \in {NULL, Some(1)}}

SignForeign(alg, claims, key) ==
    /\ jwt' = Some(TokenString(alg, claims, Sign(alg, claims, key)))
    /\ made' = NULL
    /\ resp' = [NoCall EXCEPT !.op = "sign"]
    /\ UNCHANGED <<now, storeVars, concVars, authVars, httpVars>>

\* someone without the key alters an issued token and keeps its signature
TamperAlg(alg) ==
    /\ made # NULL
    /\ alg # Val(jwt)[1]
    /\ jwt' = Some(TokenString(alg, Val(jwt)[2], Val(jwt)[3]))
    /\ made' = NULL
    /\ resp' = [NoCall EXCEPT !.op = "tamper"]
    /\ UNCHANGED <<now, storeVars, concVars, authVars, httpVars>>

TamperClaims(sub, exp) ==
    /\ made # NULL
    /\ <<sub, exp>> # <<Val(jwt)[2].sub, Val(jwt)[2].exp>>
    /\ jwt' = Some(TokenString(Val(jwt)[1],
                               [Val(jwt)[2] EXCEPT !.sub = sub, !.exp = exp],
                               Val(jwt)[3]))
    /\ made' = NULL
    /\ resp' = [NoCall EXCEPT !.op = "tamper"]
    /\ UNCHANGED <<now, storeVars, concVars, authVars, httpVars>>

\* a string that is not three segments
Garble ==
    /\ jwt' = Some(<<"garbage">>)
    /\ made' = NULL
    /\ resp' = [NoCall EXCEPT !.op = "garble"]
    /\ UNCHANGED <<now, storeVars, concVars, authVars, httpVars>>

\* a handler validates the presented token with its secret
CheckJWT(tokenSecret) ==
    /\ jwt # NULL
    /\ LET r == ValidateJWT(Val(jwt), tokenSecret, now) IN
          resp' = [NoCall EXCEPT !.op = "ValidateJWT", !.key = tokenSecret,
                                 !.err = r.err, !.id = Some(r.id)]
    /\ UNCHANGED <<now, storeVars, concVars, jwtVars, authVars, httpVars>>

TickJWT ==
    /\ now < MaxClock
    /\ now' = now + 1
    /\ resp' = NoCall
    /\ UNCHANGED <<storeVars, concVars, jwtVars, authVars, httpVars>>

NextJWT ==
    \/ \E u \in UUIDs, k \in Secrets, ttl \in TTLs : IssueJWT(u, k, ttl)
    \/ \E a \in Algs, c \in ForeignClaims, k \in Secrets : SignForeign(a, c, k)
    \/ \E a \in Algs : TamperAlg(a)
    \/ \E sub \in Subjects, exp \in {NULL} \cup {Some(x) : x \in 1..2} : TamperClaims(sub, exp)
    \/ Garble
    \/ \E k \in Secrets : CheckJWT(k)
    \/ TickJWT

SpecJWT == Init /\ [][NextJWT]_vars

\* ------------------------------------------------------------------ claims on access tokens

\* the token under validation, when it is a three-segment string
Presented == Val(jwt)

Validated == resp.op = "ValidateJWT"

\* C9 as stated: a token made by MakeJWT(u, k, ttl) with ttl > 0 validates
\* under k to exactly u at every time before ttl has elapsed since issuance.
C9_RoundTripBeforeTTL ==
    (/\ Validated
     /\ made # NULL
     /\ resp.key = Val(made).tokenSecret
     /\ Val(made).expiresIn > 0
     /\ now < Val(made).at + Val(made).expiresIn)
    => (resp.err = ErrNil /\ resp.id = Some(Val(made).userID))

\* C9, amended: the same, at every time before the expiry claim, which is the
\* time of issuance plus ttl cut down to a whole second.
C9_RoundTripBeforeExpiry ==
    (/\ Validated
     /\ made # NULL
     /\ resp.key = Val(made).tokenSecret
     /\ Val(made).expiresIn > 0
     /\ now < TicksPerSecond * ((Val(made).at + Val(made).expiresIn) \div TicksPerSecond))
    => (resp.err = ErrNil /\ resp.id = Some(Val(made).userID))

\* A token issued off a second boundary has validated to its user at a later
\* time, under the secret it was made with.
C9_Witness ==
    /\ Validated
    /\ made # NULL
    /\ resp.key = Val(made).tokenSecret
    /\ Val(made).at % TicksPerSecond # 0
    /\ Val(made).at < now
    /\ resp.err = ErrNil
    /\ resp.id = Some(Val(made).userID)
    /\ Val(made).userID # UUIDNil

\* C10 as stated, for a token that carries an expires_at: accepted if and
\* only if the signature verifies under k, the issuer is "chirpy" and
\* now < expires_at.
C10_AcceptedIff ==
    (Validated /\ Len(Presented) = 3 /\ Presented[2].exp # NULL) =>
       ((resp.err = ErrNil) <=>
          (/\ Presented[1] \in HMACAlgs
           /\ Presented[3] = Sign(Presented[1], Presented[2], resp.key)
           /\ Presented[2].iss = "chirpy"
           /\ now < TicksPerSecond * Val(Presented[2].exp)))

\* C10, amended: accepted if and only if the token is HMAC-signed and the
\* signature verifies under k, the issuer is "chirpy", the subject parses as
\* a user identifier, now < expires_at when there is an expiry claim and
\* now >= not-before when there is one.  A token made with another secret,
\* and a verifying unexpired token of another issuer, are rejected.
C10_AcceptedIffAllChecks ==
    /\ Validated =>
         ((resp.err = ErrNil) <=>
            (/\ Len(Presented) = 3
             /\ Presented[1] \in HMACAlgs
             /\ Presented[3] = Sign(Presented[1], Presented[2], resp.key)
             /\ Presented[2].iss = "chirpy"
             /\ Presented[2].sub.form \in {"canonical", "urn"}
             /\ (Presented[2].exp # NULL => now < TicksPerSecond * Val(Presented[2].exp))
             /\ (Presented[2].nbf # NULL => now >= TicksPerSecond * Val(Presented[2].nbf))))
    /\ (Validated /\ made # NULL /\ resp.key # Val(made).tokenSecret) => resp.err # ErrNil
    /\ (/\ Validated
        /\ Len(Presented) = 3
        /\ Presented[3] = Sign(Presented[1], Presented[2], resp.key)
        /\ Presented[2].iss # "chirpy") => resp.err # ErrNil

\* An unexpired token made with one secret has been rejected under the other.
C10_Witness ==
    /\ Validated
    /\ made # NULL
    /\ resp.key # Val(made).tokenSecret
    /\ now < TicksPerSecond * Val(Presented[2].exp)
    /\ resp.err = "invalid token: token signature is invalid"
    /\ resp.id = Some(UUIDNil)

\* err.Error() contains "expired"
ReportsExpiry(err) ==
    err \in {"invalid token: token has invalid claims: token is expired",
             "invalid token: token has invalid claims: token is expired, token is not valid yet"}

\* C11: a token made at t0 with lifetime ttl is rejected by every validation
\* at now >= t0 + ttl, with an error reporting expiry when validated under its
\* own secret (so a zero or negative ttl is rejected at once); and a token
\* that validation reports as expired is reported as expired, and rejected
\* under every secret, after every further step that keeps the token.
C11_ExpiredStaysExpired ==
    [][/\ (/\ resp'.op = "ValidateJWT"
           /\ made' # NULL
           /\ now' >= Val(made').at + Val(made').expiresIn)
          => (/\ resp'.err # ErrNil
              /\ resp'.id = Some(UUIDNil)
              /\ resp'.key = Val(made').tokenSecret => ReportsExpiry(resp'.err))
       /\ (/\ jwt # NULL
           /\ jwt' = jwt
           /\ \E k \in Secrets : ReportsExpiry(ValidateJWT(Val(jwt), k, now).err))
          => (/\ \E k \in Secrets : ReportsExpiry(ValidateJWT(Val(jwt'), k, now').err)
              /\ \A k \in Secrets : ValidateJWT(Val(jwt'), k, now').err # ErrNil)]_vars

\* A token made with ttl <= 0 has been rejected as expired by a validation at
\* the very time it was made.
C11_Witness ==
    /\ Validated
    /\ made # NULL
    /\ Val(made).expiresIn <= 0
    /\ Val(made).at = now
    /\ now > 0
    /\ resp.key = Val(made).tokenSecret
    /\ ReportsExpiry(resp.err)

\* the error texts ValidateJWT can return
InvalidTokenFailures ==
    {"invalid token: token is malformed",
     "invalid token: token is unverifiable: unexpected signing method",
     "invalid token: token signature is invalid",
     "invalid token: token has invalid claims: token is expired, token is not valid yet",
     "invalid token: token has invalid claims: token is expired",
     "invalid token: token has invalid claims: token is not valid yet",
     "invalid issuer",
     "invalid user ID in token"}

\* the ways a presented token can be wrong for a secret at a time
Unparsable(tok) == Len(tok) # 3
WrongAlgorithm(tok) == Len(tok) = 3 /\ ~KeyfuncAccepts(tok[1])
BadSignature(tok, key) == Len(tok) = 3 /\ ~Verify(tok, key)
TokenExpired(tok, at) == Len(tok) = 3 /\ Expired(tok[2], at)
WrongIssuer(tok) == Len(tok) = 3 /\ ~IssuerOK(tok[2])
BadSubject(tok) == Len(tok) = 3 /\ ~UUIDParse(tok[2].sub).ok

\* C12 as stated: every rejection is one and the same outcome for the caller
\* (the outcome an unparsable token gets), with the nil identifier.
C12_SingleFailure ==
    (Validated /\ resp.err # ErrNil)
        => /\ resp.err = ValidateJWT(<<"garbage">>, resp.key, now).err
           /\ resp.id = Some(UUIDNil)

\* C12 amended: a token that is unparsable, names a wrong algorithm, has a
\* bad signature, is expired, names a wrong issuer or has a subject that is
\* no uuid is rejected; every rejection returns a non-nil error out of
\* InvalidTokenFailures, whose text depends on the reason, together with the
\* nil identifier.
C12_RejectionsReturnNil ==
    Validated =>
        /\ (\/ Unparsable(Presented)
            \/ WrongAlgorithm(Presented)
            \/ BadSignature(Presented, resp.key)
            \/ TokenExpired(Presented, now)
            \/ WrongIssuer(Presented)
            \/ BadSubject(Presented)) => resp.err # ErrNil
        /\ resp.err # ErrNil => /\ resp.err \in InvalidTokenFailures
                                /\ resp.id = Some(UUIDNil)

\* A correctly signed, unexpired token of user 1 with a foreign issuer has
\* been rejected with "invalid issuer" and the nil identifier.
C12_Witness ==
    /\ Validated
    /\ resp.err = "invalid issuer"
    /\ UUIDParse(Presented[2].sub).ok
    /\ UUIDParse(Presented[2].sub).id # UUIDNil
    /\ resp.id = Some(UUIDNil)

\* C13: a token whose header names an algorithm outside the HMAC family is
\* rejected under every secret and at every time, whatever its claims and
\* signature are, and the validation returns the nil identifier.
C13_NonHMACRejected ==
    /\ (Validated /\ Len(Presented) = 3 /\ Presented[1] \notin HMACAlgs)
          => (resp.err # ErrNil /\ resp.id = Some(UUIDNil))
    /\ (jwt # NULL /\ Len(Presented) = 3 /\ Presented[1] \notin HMACAlgs)
          => \A k \in Secrets, t \in 0..MaxClock :
                /\ ValidateJWT(Presented, k, t).err # ErrNil
                /\ ValidateJWT(Presented, k, t).id = UUIDNil

\* A token with algorithm "none" whose claims are in order and whose
\* signature segment matches the handler's key has been rejected.
C13_Witness ==
    /\ Validated
    /\ Presented[1] = "none"
    /\ Presented[3] = Sign("none", Presented[2], resp.key)
    /\ IssuerOK(Presented[2])
    /\ ~Expired(Presented[2], now)
    /\ ~NotValidYet(Presented[2], now)
    /\ UUIDParse(Presented[2].sub).id # UUIDNil
    /\ resp.err = "invalid token: token is unverifiable: unexpected signing method"
    /\ resp.id = Some(UUIDNil)

\* ------------------------------------------------------------------ SpecSession: access tokens beside the store

\* One user with one refresh token and access tokens made for that user:
\* the store's queries and the two JWT functions run in any order.
SessionUser == 1
SessionToken == 1
SessionTTLs == 1..MaxTTL

NextSession ==
    \/ \E email \in Emails : CreateUser(SessionUser, email)
    \/ \E e \in Expiries : CreateRefreshToken(SessionToken, SessionUser, e)
    \/ RevokeRefreshToken(SessionToken)
    \/ GetUserFromRefreshToken(SessionToken)
    \/ \E k \in Secrets, ttl \in SessionTTLs : IssueJWT(SessionUser, k, ttl)
    \/ \E k \in Secrets : CheckJWT(k)
    \/ Tick

SpecSession == Init /\ [][NextSession]_vars

\* C14: a validation leaves the store as it is; a token validated under its
\* own secret before its expiry claim is accepted with its user, whatever
\* the user's refresh tokens are (revoked, expired, absent); and no step that
\* keeps the token and the time changes what ValidateJWT returns for it under
\* any secret.
C14_StatelessValidation ==
    [][/\ resp'.op = "ValidateJWT"
          => /\ UNCHANGED storeVars
             /\ (/\ made' # NULL
                 /\ resp'.key = Val(made').tokenSecret
                 /\ now' < NumericDateTime(NewNumericDate(Val(made').at + Val(made').expiresIn)))
                => (resp'.err = ErrNil /\ resp'.id = Some(Val(made').userID))
       /\ (jwt # NULL /\ jwt' = jwt /\ now' = now)
          => \A k \in Secrets :
                ValidateJWT(Val(jwt), k, now)' = ValidateJWT(Val(jwt), k, now)]_vars

\* The user's refresh token is revoked and the user's access token has just
\* been accepted.
C14_Witness ==
    /\ Validated
    /\ resp.err = ErrNil
    /\ made # NULL
    /\ resp.id = Some(Val(made).userID)
    /\ \E r \in refresh_tokens : r.user_id = Val(made).userID /\ r.revoked_at # NULL

\* ------------------------------------------------------------------ SpecBearer: GetBearerToken

\* Bounds: the longest header value, in atoms, and the number of error
\* objects the calls may allocate.
MaxHeaderLen == 3
MaxErrors == 2

\* A header value is a string made of these pieces; " " is the space byte.
\* No piece is a prefix of another, so different sequences are different
\* strings.
HeaderAtoms == {"Bearer", "Token", "abc", " "}

RECURSIVE SeqsUpTo(_, _)
SeqsUpTo(S, n) ==
    IF n = 0 THEN {<<>>}
    ELSE LET shorter == SeqsUpTo(S, n - 1) IN
         shorter \cup {Append(q, a) : q \in {x \in shorter : Len(x) = n - 1}, a \in S}

\* headers.Get("Authorization"): "" when the header is absent
AuthorizationValues == SeqsUpTo(HeaderAtoms, MaxHeaderLen)

\* strings.Split(s, " "): the pieces between the spaces, n spaces give n + 1 parts
RECURSIVE Split(_)
Split(s) ==
    IF \A i \in 1..Len(s) : s[i] # " "
      THEN <<s>>
      ELSE LET i == CHOOSE j \in 1..Len(s) :
                        s[j] = " " /\ \A k \in 1..(j - 1) : s[k] # " "
           IN <<SubSeq(s, 1, i - 1)>> \o Split(SubSeq(s, i + 1, Len(s)))

\* a Go error value: the *errorString pointer and the text it points to;
\* the nil error is the nil pointer
NilError == [text |-> "nil", addr |-> 0]

\* errors.New(text): a pointer to a newly allocated errorString
ErrorsNew(mem, text) == [text |-> text, addr |-> Cardinality(mem) + 1]

\* GetBearerToken on the Authorization value, with the heap as it is
GetBearerToken(authHeader, mem) ==
    IF authHeader = <<>>
      THEN [token |-> <<>>, err |-> ErrorsNew(mem, "authorization header is missing")]
    ELSE LET parts == Split(authHeader) IN
         IF Len(parts) # 2 \/ parts[1] # <<"Bearer">>
           THEN [token |-> <<>>, err |-> ErrorsNew(mem, "malformed authorization header")]
           ELSE [token |-> parts[2], err |-> NilError]

\* a handler calls GetBearerToken on a request's headers
CallGetBearerToken(authHeader) ==
    LET r == GetBearerToken(authHeader, heap) IN
    /\ r.err # NilError => Cardinality(heap) < MaxErrors
    /\ heap' = IF r.err = NilError THEN heap ELSE heap \cup {r.err}
    /\ resp' = [op |-> "GetBearerToken", header |-> authHeader,
                token |-> r.token, err |-> r.err]
    /\ UNCHANGED <<now, storeVars, concVars, jwtVars, secret, hashes, httpVars>>

NextBearer == \E h \in AuthorizationValues : CallGetBearerToken(h)

SpecBearer == Init /\ [][NextBearer]_vars

Extracted == resp.op = "GetBearerToken"

\* "Bearer " followed by a non-empty token without spaces
WellFormed(h) ==
    /\ Len(h) >= 3
    /\ h[1] = "Bearer"
    /\ h[2] = " "
    /\ \A i \in 3..Len(h) : h[i] # " "

\* C15: a well-formed header gives its token and no error; an absent header
\* gives the missing-header failure; another scheme word or a part count
\* other than two gives the malformed-header failure; and each failure is one
\* value, the same on every call, so that two returned errors with the same
\* meaning are equal.
C15_BearerExtraction ==
    /\ Extracted =>
         /\ WellFormed(resp.header)
              => /\ resp.token = SubSeq(resp.header, 3, Len(resp.header))
                 /\ resp.err = NilError
         /\ resp.header = <<>>
              => resp.err.text = "authorization header is missing"
         /\ (/\ resp.header # <<>>
             /\ \/ Len(Split(resp.header)) # 2
                \/ Split(resp.header)[1] # <<"Bearer">>)
              => resp.err.text = "malformed authorization header"
    /\ \A e1, e2 \in heap : e1.text = e2.text => e1 = e2

\* C16: no call returns the empty token with a nil error, and the header
\* "Bearer " gives the malformed-header failure with the empty string.
C16_NoEmptyToken ==
    Extracted =>
        /\ ~(resp.token = <<>> /\ resp.err = NilError)
        /\ resp.header = <<"Bearer", " ">>
             => /\ resp.err.text = "malformed authorization header"
                /\ resp.token = <<>>

\* ------------------------------------------------------------------ SpecHash: HashPassword and CheckPasswordHash

\* Bound: the number of key bytes the cipher's key schedule reads (72 in
\* bcrypt), scaled down; passwords run to one byte more than that.
KeyBytes == 2
MaxPasswordLen == KeyBytes + 1

Cost == 12

\* password bytes: 0 is the NUL byte
Bytes == {0, 1, 2}
Passwords == SeqsUpTo(Bytes, MaxPasswordLen)

\* the salts rand.Reader can give
Salts == {1, 2}

\* bcrypt: ckey := append(password, 0)
CKeyNoTerminator(password) == IF password = <<>> THEN <<0>> ELSE password

CKey(password) == Append(password, 0)

\* blowfish.ExpandKey: the key schedule reads the key bytes round and round,
\* KeyBytes of them in all
KeyStream(password) ==
    LET ckey == CKey(password) IN
    [i \in 1..KeyBytes |-> ckey[((i - 1) % Len(ckey)) + 1]]

\* the bcrypt digest of a key stream under a salt and a cost; the cipher is
\* taken as free of collisions of its own
Digest(stream, cost, salt) == [salt |-> salt, cost |-> cost, stream |-> stream]

\* the encoded hash "$2a$cost$salt.digest"
HashString(cost, salt, digest) == [cost |-> cost, salt |-> salt, digest |-> digest]

\* the "" that HashPassword returns beside an error
EmptyHash == HashString(0, 0, Digest(<<>>, 0, 0))

HashResult(hash, err) == [hash |-> hash, err |-> err]

\* bcrypt.GenerateFromPassword(password, Cost) with the salt drawn; releases
\* of the library that check the length refuse a password longer than the
\* key window, older ones hash the bytes the key schedule reads
HashPassword(password, salt, checksLength) ==
    IF checksLength /\ Len(password) > KeyBytes
      THEN HashResult(EmptyHash, "bcrypt: password length exceeds 72 bytes")
      ELSE HashResult(HashString(Cost, salt, Digest(KeyStream(password), Cost, salt)),
                      ErrNil)

\* bcrypt.CompareHashAndPassword(hash, password): hashes the password with
\* the salt and cost of the hash and compares; it has no length check
CheckPasswordHash(password, hash) ==
    IF hash = EmptyHash
      THEN "crypto/bcrypt: hashedSecret too short to be a bcrypted password"
    ELSE IF Digest(KeyStream(password), hash.cost, hash.salt) = hash.digest
      THEN ErrNil
      ELSE "crypto/bcrypt: hashedPassword is not the hash of the given password"

\* a handler hashes a user's password; hashes holds what HashPassword
\* returned for the current secret
CallHashPassword(password, salt, checksLength) ==
    LET r == HashPassword(password, salt, checksLength) IN
    /\ secret' = Some(password)
    /\ hashes' = (IF secret = Some(password) THEN hashes ELSE {})
                    \cup (IF r.err = ErrNil THEN {r.hash} ELSE {})
    /\ resp' = [op |-> "HashPassword", password |-> password,
                hash |-> r.hash, err |-> r.err]
    /\ UNCHANGED <<now, storeVars, concVars, jwtVars, heap, httpVars>>

\* a handler checks a presented password against a stored hash
CallCheckPasswordHash(password, hash) ==
    /\ resp' = [op |-> "CheckPasswordHash", password |-> password,
                hash |-> hash, err |-> CheckPasswordHash(password, hash)]
    /\ UNCHANGED <<now, storeVars, concVars, jwtVars, authVars, httpVars>>

NextHash ==
    \/ \E p \in Passwords, salt \in Salts, c \in BOOLEAN : CallHashPassword(p, salt, c)
    \/ \E p \in Passwords, h \in hashes : CallCheckPasswordHash(p, h)

SpecHash == Init /\ [][NextHash]_vars

Hashed == resp.op = "HashPassword"
Checked == resp.op = "CheckPasswordHash"

NoNul(password) == \A i \in 1..Len(password) : password[i] # 0

\* a password the key schedule reads in full and unambiguously
WithinKey(password) == Len(password) <= KeyBytes /\ NoNul(password)

\* C17 as stated: every hash of a secret verifies the secret; a hash of one
\* secret verifies no other secret; hashes of one secret under different
\* salts differ and all verify.
C17_RoundTrip ==
    /\ (Checked /\ resp.password = Val(secret)) => resp.err = ErrNil
    /\ (Checked /\ resp.password # Val(secret)) => resp.err # ErrNil
    /\ \A h1, h2 \in hashes : h1.salt # h2.salt => h1 # h2
    /\ \A h \in hashes : CheckPasswordHash(Val(secret), h) = ErrNil

\* C17 amended: HashPassword succeeds on every secret no longer than the key
\* window, and every hash it returns verifies its secret; the hash of a
\* secret verifies no other secret when both fit the key window and hold no
\* NUL byte; hashes of one secret under different salts differ and all
\* verify.
C17_RoundTripWithinKey ==
    /\ (Hashed /\ Len(resp.password) <= KeyBytes) => resp.err = ErrNil
    /\ (Hashed /\ resp.err = ErrNil)
          => CheckPasswordHash(resp.password, resp.hash) = ErrNil
    /\ (Checked /\ resp.password = Val(secret)) => resp.err = ErrNil
    /\ (/\ Checked
        /\ resp.password # Val(secret)
        /\ WithinKey(resp.password)
        /\ WithinKey(Val(secret))) => resp.err # ErrNil
    /\ \A h1, h2 \in hashes : h1.salt # h2.salt => h1 # h2
    /\ \A h \in hashes : CheckPasswordHash(Val(secret), h) = ErrNil

\* A secret has two different hashes, and another secret of the same length
\* within the key window has just been refused against one of them.
C17_Witness ==
    /\ Checked
    /\ Cardinality(hashes) = 2
    /\ resp.hash \in hashes
    /\ WithinKey(Val(secret))
    /\ WithinKey(resp.password)
    /\ Len(resp.password) = KeyBytes
    /\ Len(Val(secret)) = KeyBytes
    /\ resp.password # Val(secret)
    /\ resp.err = "crypto/bcrypt: hashedPassword is not the hash of the given password"

\* ------------------------------------------------------------------ SpecHTTP: the chirp endpoints

MaxChirpLen == 140

\* chirps.id values gen_random_uuid() can draw
ChirpIDs == {1, 2}

\* A chirp body is a sequence of words with single spaces between them.
LongWord == "a...a (141 bytes)"
BannedWords == {"kerfuffle", "sharbert", "fornax"}
ToLower(w) == IF w = "Kerfuffle" THEN "kerfuffle" ELSE w
WordLen(w) ==
    CASE w = "hi" -> 2
      [] w = "Kerfuffle" -> 9
      [] w = "****" -> 4
      [] w = LongWord -> 141

RECURSIVE BodyLen(_)
BodyLen(body) ==
    IF body = <<>> THEN 0
    ELSE IF Len(body) = 1 THEN WordLen(body[1])
    ELSE WordLen(body[1]) + 1 + BodyLen(Tail(body))

Bodies == {<<>>, <<"hi">>, <<"Kerfuffle">>, <<"hi", "Kerfuffle">>, <<LongWord>>}

\* replacer: every banned word, in any case, becomes "****"
replacer(str) ==
    [i \in 1..Len(str) |-> IF ToLower(str[i]) \in BannedWords THEN "****" ELSE str[i]]

\* the JSON body of POST /api/chirps: NULL is a body that does not decode
ChirpParams ==
    {NULL} \cup {Some([body |-> b, user_id |-> u]) :
                    b \in Bodies,
                    u \in {UUIDString(1), UUIDString(2), [form |-> "text", uuid |-> 0]}}

\* the Authorization header of a request: absent, or "Bearer " and an access
\* token made for a user
Authorizations ==
    {NULL} \cup {Some(MakeJWT(u, k, MaxTTL, 0)) : u \in UserIDs, k \in {1}}

ChirpRow(id, body, u, at) ==
    [id |-> id, created_at |-> at, updated_at |-> at, body |-> body, user_id |-> u]

\* -- name: CreateChirp :one
\* INSERT INTO chirps (body, user_id) VALUES ($1, $2) RETURNING *;
CreateChirp(urows, rows, id, body, u, at) ==
    IF ~fk_user(urows, u)
      THEN [rows |-> rows, row |-> NULL, err |-> ErrForeignKey]
      ELSE [rows |-> rows \cup {ChirpRow(id, body, u, at)},
            row |-> Some(ChirpRow(id, body, u, at)), err |-> ErrNil]

\* -- name: GetChirps :many    SELECT * FROM chirps ORDER BY created_at;
\* rows with equal created_at come in any order
GetChirps(rows) ==
    {q \in SeqsUpTo(rows, Cardinality(rows)) :
        /\ Len(q) = Cardinality(rows)
        /\ \A i, j \in 1..Len(q) : i < j => (q[i] # q[j] /\ q[i].created_at <= q[j].created_at)}

\* -- name: GetChirp :one      SELECT * FROM chirps WHERE id = $1;
GetChirp(rows, id) == {r \in rows : r.id = id}

HTTPResponse(op, authorization, status, data) ==
    [op |-> op, authorization |-> authorization, status |-> status, data |-> data]

\* POST /api/chirps
handlerCreateChirp(authorization, params, id) ==
    /\ \A c \in chirps : c.id # id
    /\ LET op == "POST /api/chirps" IN
       IF params = NULL
         THEN /\ resp' = HTTPResponse(op, authorization, 400, <<>>)
              /\ chirps' = chirps
       ELSE IF Val(params).body = <<>> \/ BodyLen(Val(params).body) > MaxChirpLen
         THEN /\ resp' = HTTPResponse(op, authorization, 400, <<>>)
              /\ chirps' = chirps
       ELSE IF ~UUIDParse(Val(params).user_id).ok
         THEN /\ resp' = HTTPResponse(op, authorization, 400, <<>>)
              /\ chirps' = chirps
       ELSE LET r == CreateChirp(users, chirps, id, replacer(Val(params).body),
                                 UUIDParse(Val(params).user_id).id, now) IN
            /\ chirps' = r.rows
            /\ resp' = IF r.err # ErrNil
                         THEN HTTPResponse(op, authorization, 500, <<>>)
                         ELSE HTTPResponse(op, authorization, 201, <<Val(r.row)>>)
    /\ UNCHANGED <<now, storeVars, concVars, jwtVars, authVars, fileserverHits, sinceReset>>

\* GET /api/chirps
handlerGetChirps(authorization) ==
    /\ \E q \in GetChirps(chirps) :
          resp' = HTTPResponse("GET /api/chirps", authorization, 200, q)
    /\ UNCHANGED <<now, storeVars, concVars, jwtVars, authVars, httpVars>>

\* GET /api/chirps/{chirpID}
handlerGetChirp(authorization, chirpIDStr) ==
    /\ LET op == "GET /api/chirps/{chirpID}" IN
       IF ~UUIDParse(chirpIDStr).ok
         THEN resp' = HTTPResponse(op, authorization, 400, <<>>)
       ELSE IF GetChirp(chirps, UUIDParse(chirpIDStr).id) = {}
         THEN resp' = HTTPResponse(op, authorization, 500, <<>>)
       ELSE \E r \in GetChirp(chirps, UUIDParse(chirpIDStr).id) :
               resp' = HTTPResponse(op, authorization, 200, <<r>>)
    /\ UNCHANGED <<now, storeVars, concVars, jwtVars, authVars, httpVars>>

NextHTTP ==
    \/ \E email \in Emails : CreateUser(SessionUser, email)
    \/ \E a \in Authorizations, p \in ChirpParams, id \in ChirpIDs : handlerCreateChirp(a, p, id)
    \/ \E a \in Authorizations : handlerGetChirps(a)
    \/ \E a \in Authorizations, c \in Subjects : handlerGetChirp(a, c)
    \/ Tick

SpecHTTP == Init /\ [][NextHTTP]_vars

ProtectedEndpoints ==
    {"POST /api/chirps", "GET /api/chirps", "GET /api/chirps/{chirpID}"}

\* the request carries a bearer access token that validates, under some
\* secret, as the token of user u
Authenticated(authorization, u) ==
    /\ authorization # NULL
    /\ \E k \in Secrets :
          /\ ValidateJWT(Val(authorization), k, now).err = ErrNil
          /\ ValidateJWT(Val(authorization), k, now).id = u

\* C18: a request to a chirp endpoint that creates or returns data carries
\* a valid bearer access token, and a chirp is stored with the user
\* identifier of the authenticated caller.
C18_AuthRequired ==
    resp.op \in ProtectedEndpoints =>
        /\ resp.data # <<>> => \E u \in UserIDs : Authenticated(resp.authorization, u)
        /\ resp.status = 201 => Authenticated(resp.authorization, resp.data[1].user_id)

\* ------------------------------------------------------------------ SpecHits: the hit counter

\* Bound: the /app/ requests counted before a reset must come.
MaxHits == 3

\* requests in flight, each served by its own goroutine
Clients == {"c1", "c2", "c3"}

\* routes main registers without middlewareMetricsInc and whose handlers do
\* not touch the counter
UnwrappedRoutes ==
    {"/assets/", "GET /api/healthz", "POST /api/users", "POST /api/chirps",
     "GET /api/chirps", "GET /api/chirps/{chirpID}"}

\* atomic.Int32
MaxInt32 == 2147483647
MinInt32 == (0 - MaxInt32) - 1

\* Int32.Add(1): two's-complement addition, the new value
Int32AddLost(v) == v

Int32Add(v) == IF v = MaxInt32 THEN MinInt32 ELSE v + 1

HitsResponse(op, p, hits) == [op |-> op, proc |-> p, hits |-> hits]

\* middlewareMetricsInc: cfg.fileserverHits.Add(1), one atomic step
middlewareMetricsInc(p) ==
    /\ pc[p] = "idle"
    /\ sinceReset < MaxHits
    /\ fileserverHits' = Int32Add(fileserverHits)
    /\ sinceReset' = sinceReset + 1
    /\ pc' = [pc EXCEPT ![p] = "next"]
    /\ resp' = HitsResponse("Add", p, fileserverHits')
    /\ UNCHANGED <<now, storeVars, txn, jwtVars, authVars, chirps>>

\* next.ServeHTTP(w, r): the file server answers the /app/ request
ServeApp(p) ==
    /\ pc[p] = "next"
    /\ pc' = [pc EXCEPT ![p] = "idle"]
    /\ resp' = HitsResponse("GET /app/", p, 0)
    /\ UNCHANGED <<now, storeVars, txn, jwtVars, authVars, httpVars>>

\* handlerMetrics: hits := cfg.fileserverHits.Load()
handlerMetricsLoad(p) ==
    /\ pc[p] = "idle"
    /\ pc' = [pc EXCEPT ![p] = "loaded"]
    /\ txn' = [txn EXCEPT ![p] = fileserverHits]
    /\ resp' = HitsResponse("Load", p, fileserverHits)
    /\ UNCHANGED <<now, storeVars, jwtVars, authVars, httpVars>>

\* handlerMetrics: tmpl.Execute(w, hits)
handlerMetrics(p) ==
    /\ pc[p] = "loaded"
    /\ pc' = [pc EXCEPT ![p] = "idle"]
    /\ txn' = [txn EXCEPT ![p] = 0]
    /\ resp' = HitsResponse("GET /admin/metrics", p, txn[p])
    /\ UNCHANGED <<now, storeVars, jwtVars, authVars, httpVars>>

\* handlerReset: cfg.fileserverHits.Store(0), then the answer
handlerReset(p) ==
    /\ pc[p] = "idle"
    /\ fileserverHits' = 0
    /\ sinceReset' = 0
    /\ resp' = HitsResponse("Store", p, 0)
    /\ UNCHANGED <<now, storeVars, concVars, jwtVars, authVars, chirps>>

\* a request to a route without the middleware
ServeUnwrapped(p, route) ==
    /\ pc[p] = "idle"
    /\ resp' = HitsResponse(route, p, 0)
    /\ UNCHANGED <<now, storeVars, concVars, jwtVars, authVars, httpVars>>

InitHits ==
    /\ now = 0
    /\ users = {}
    /\ refresh_tokens = {}
    /\ resp = NoCall
    /\ issuedTo = {}
    /\ revokeCalled = {}
    /\ pc = [p \in Clients |-> "idle"]
    /\ txn = [p \in Clients |-> 0]
    /\ jwt = NULL
    /\ made = NULL
    /\ heap = {}
    /\ secret = NULL
    /\ hashes = {}
    /\ chirps = {}
    /\ fileserverHits = 0
    /\ sinceReset = 0

NextHits ==
    \/ \E p \in Clients : middlewareMetricsInc(p)
    \/ \E p \in Clients : ServeApp(p)
    \/ \E p \in Clients : handlerMetricsLoad(p)
    \/ \E p \in Clients : handlerMetrics(p)
    \/ \E p \in Clients : handlerReset(p)
    \/ \E p \in Clients, route \in UnwrappedRoutes : ServeUnwrapped(p, route)

SpecHits == InitHits /\ [][NextHits]_vars

\* C19: in every interleaving the counter is the number of increments since
\* the last reset, and that is what handlerMetrics reads; an /app/ request
\* adds exactly one, and does so before its wrapped handler runs; a reset
\* stores zero; every other step leaves the counter alone.
C19_HitCounter ==
    [][/\ fileserverHits' = sinceReset'
       /\ resp'.op = "Load" => resp'.hits = sinceReset'
       /\ resp'.op = "GET /admin/metrics" => resp'.hits = txn[resp'.proc]
       /\ resp'.op = "Add" => /\ fileserverHits' = fileserverHits + 1
                              /\ pc[resp'.proc] = "idle"
                              /\ pc'[resp'.proc] = "next"
       /\ resp'.op = "GET /app/" => pc[resp'.proc] = "next"
       /\ resp'.op = "Store" => fileserverHits' = 0
       /\ resp'.op \notin {"Add", "Store"} => fileserverHits' = fileserverHits]_vars

\* Two /app/ requests have incremented and not yet been served, and a third
\* request has just read 2.
C19_Witness ==
    /\ resp.op = "Load"
    /\ resp.hits = 2
    /\ Cardinality({p \in Clients : pc[p] = "next"}) = 2

====
